---------------------------- MODULE Spec2Model ----------------------------
(***************************************************************************)
(* Model of flexible-shadow.hpp: the ShadowMap template, a multi-level     *)
(* table from addresses to lazily allocated leaves.                        *)
(*                                                                         *)
(* A node is identified by its storage address (a natural number).  The    *)
(* user's map object lives at address Root; every other node is storage    *)
(* returned by shadow_malloc.  The template's level is a static type in    *)
(* the source; here it is the parameter k (1 = the user's map, Len(dims)   *)
(* = the single-width specialization that holds the Leaf record).          *)
(***************************************************************************)
EXTENDS Integers, Sequences, FiniteSets, TLC

\* Bit width of the Address type (template parameter Address).
AddrBits == 4

\* The callers pass the addresses 0 .. MaxAddr.
MaxAddr == 8

\* The threads make at most MaxCalls calls in all, on the addresses
\* 0 .. MaxStepAddr.
MaxCalls == 3
MaxStepAddr == 2

\* nullptr and the storage address of the user's map object.
NULL == 0
Root == 1

\* Content of storage that shadow_malloc returned and nothing has written yet.
RAW == -1

VARIABLES
  dims,       \* the template's <dimension0, dimensions...> of the user's map
  _pointers,  \* interior node -> its _pointers array (slot -> child or NULL)
  _leaf,      \* leaf node -> lifecycle state of its Leaf record
  calls,      \* every constructAt, destructAt, Leaf::construct, Leaf::destruct,
              \* shadow_malloc and shadow_free call so far, in order
  live,       \* TRUE from the constructor until the destructor has run
  op,         \* the member function the caller called last
  arg,        \* its address argument
  ret,        \* its return value
  held,       \* a result the caller kept from some earlier leaf_for_write
  written,    \* TRUE once leaf_for_write has been called on the map
  threads,    \* thread -> where it stands in the call it is executing
  started,    \* number of calls the threads have begun
  raced       \* TRUE once two leaf_for_write calls were in progress together

vars == <<dims, _pointers, _leaf, calls, live, op, arg, ret, held, written,
          threads, started, raced>>

\* The instantiations that are explored: one, two and three levels, all with
\* unused high address bits but the one whose single width is the whole
\* Address.
Configs ==
  { <<1>>, <<2>>, <<AddrBits>>, <<1, 1>>, <<2, 1>>, <<1, 2>>, <<1, 1, 1>> }

Addresses == 0 .. MaxAddr

NoHeld == [addr |-> -1, rec |-> NULL]

\* The threads that call into one map, and a thread that is in no call.
Threads == {1, 2}

Idle ==
  [pc |-> "idle", op |-> "none", addr |-> 0, map |-> NULL, k |-> 0, idx |-> 0,
   own |-> NULL, ret |-> NULL, overlap |-> FALSE, sawRaw |-> FALSE]

(***************************************************************************)
(* Integer arithmetic of the source                                        *)
(***************************************************************************)

\* 1ul << n
ShiftLeft1(n) == 2^n

\* a >> n on an unsigned value
ShiftRight(a, n) == a \div (2^n)

\* a & b on unsigned values, bit by bit
RECURSIVE BitAnd(_, _)
BitAnd(a, b) ==
  IF a = 0 \/ b = 0 THEN 0
  ELSE (a % 2) * (b % 2) + 2 * BitAnd(a \div 2, b \div 2)

\* Conversion of an unsigned long result to the return type Address.
ToAddress(x) == x % (2^AddrBits)

(***************************************************************************)
(* Static members                                                          *)
(***************************************************************************)

\* Is level k the single-width specialization (the leaf)?
IsLeafLevel(k) == k = Len(dims)

\* dimension0 of the level-k map.
dimension0(k) == dims[k]

\* This::dimensions_sum of the level-k map.
RECURSIVE dimensions_sum(_)
dimensions_sum(k) ==
  IF IsLeafLevel(k) THEN dimension0(k)
  ELSE dimension0(k) + dimensions_sum(k + 1)

\* Slot numbers of the level-k _pointers array.
Slots(k) == 0 .. (ShiftLeft1(dimension0(k)) - 1)

\* Faulty variant: shifts by This::dimensions_sum instead of Lower::dimensions_sum.
leaf_index_this(k, addr) ==
  BitAnd(ShiftRight(addr, dimensions_sum(k)), ShiftLeft1(dimension0(k)) - 1)

\* The index computed at the head of leaf.
leaf_index(k, addr) ==
  BitAnd(ShiftRight(addr, dimensions_sum(k + 1)), ShiftLeft1(dimension0(k)) - 1)

\* Faulty variant: shifts by This::dimensions_sum instead of Lower::dimensions_sum.
leaf_for_write_index_this(k, addr) ==
  BitAnd(ShiftRight(addr, dimensions_sum(k)), ShiftLeft1(dimension0(k)) - 1)

\* The index computed at the head of leaf_for_write.
leaf_for_write_index(k, addr) ==
  BitAnd(ShiftRight(addr, dimensions_sum(k + 1)), ShiftLeft1(dimension0(k)) - 1)

\* Faulty variant: the mask is one bit too wide.
index_mask_wide(k) == ShiftLeft1(dimension0(k) + 1) - 1

\* The mask of the single-width index.
index_mask(k) == ShiftLeft1(dimension0(k)) - 1

\* static index(addr) of the level-k map.
RECURSIVE index(_, _)
index(k, addr) ==
  IF IsLeafLevel(k) THEN BitAnd(addr, index_mask(k))
  ELSE index(k + 1, addr)

\* Faulty variant: the difference is returned without conversion to Address.
contiguousElements_leaf_wide(k, addr) ==
  ShiftLeft1(dimension0(k)) - index(k, addr)

\* The value returned by the single-width contiguousElements.
contiguousElements_leaf(k, addr) ==
  ToAddress(ShiftLeft1(dimension0(k)) - index(k, addr))

\* static contiguousElements(addr) of the level-k map.
RECURSIVE contiguousElements(_, _)
contiguousElements(k, addr) ==
  IF IsLeafLevel(k) THEN contiguousElements_leaf(k, addr)
  ELSE contiguousElements(k + 1, addr)

(***************************************************************************)
(* The heap and the calls made on it.  A heap st is a record               *)
(*   [pointers, leaf, calls] with the meaning of the three variables.      *)
(***************************************************************************)

Call(name, node) == <<name, node>>

\* The handles shadow_malloc has returned in the call sequence cs.
Acquired(cs) == { cs[i][2] : i \in { j \in DOMAIN cs : cs[j][1] = "shadow_malloc" } }

\* shadow_malloc: storage that is not in use (never the map object itself).
shadow_malloc(st) == Root + Cardinality(Acquired(st.calls)) + 1

\* Faulty variant: the single-width constructAt does not construct the record.
constructAt_skip(st, map, k) ==
  IF IsLeafLevel(k)
    THEN [st EXCEPT !.leaf = (map :> "raw") @@ @,
                    !.calls = Append(@, Call("constructAt", map))]
    ELSE [st EXCEPT !.pointers = (map :> [i \in Slots(k) |-> NULL]) @@ @,
                    !.calls = Append(@, Call("constructAt", map))]

\* constructAt of the level-k map on the storage at map.
constructAt(st, map, k) ==
  IF IsLeafLevel(k)
    THEN [st EXCEPT !.leaf = (map :> "constructed") @@ @,
                    !.calls = @ \o << Call("construct", map), Call("constructAt", map) >>]
    ELSE [st EXCEPT !.pointers = (map :> [i \in Slots(k) |-> NULL]) @@ @,
                    !.calls = Append(@, Call("constructAt", map))]

\* leaf of the level-k map at map, on the pointer table P.
RECURSIVE leaf(_, _, _, _)
leaf(P, map, k, addr) ==
  IF IsLeafLevel(k) THEN map
  ELSE LET pointer == P[map][leaf_index(k, addr)]
       IN  IF pointer = NULL THEN NULL
           ELSE leaf(P, pointer, k + 1, addr)

\* The storage leaf_for_write obtains for an absent slot, before constructAt.
Attach(st, map, idx, k) ==
  LET h == shadow_malloc(st)
  IN  [st EXCEPT !.pointers =
                    IF IsLeafLevel(k + 1)
                      THEN [@ EXCEPT ![map][idx] = h]
                      ELSE (h :> [i \in Slots(k + 1) |-> RAW]) @@ [@ EXCEPT ![map][idx] = h],
                 !.leaf = IF IsLeafLevel(k + 1) THEN (h :> "raw") @@ @ ELSE @,
                 !.calls = Append(@, Call("shadow_malloc", h))]

\* Faulty variant: the allocating branch is taken whatever the slot holds.
NeedsAllocation_always(pointer) == TRUE

\* Does leaf_for_write take its allocating branch for this pointer?
NeedsAllocation(pointer) == pointer = NULL

\* Faulty variant: constructAt runs on the slot's node whether or not it was absent.
leaf_for_write_slot_reinit(st, map, k, addr) ==
  LET idx     == leaf_for_write_index(k, addr)
      pointer == st.pointers[map][idx]
      st1     == IF NeedsAllocation(pointer) THEN Attach(st, map, idx, k) ELSE st
  IN  constructAt(st1, st1.pointers[map][idx], k + 1)

\* What leaf_for_write of the level-k map at map does to the slot of addr
\* before it descends: nothing if the slot is present, else shadow_malloc,
\* the store into the slot and Lower::constructAt.
leaf_for_write_slot(st, map, k, addr) ==
  LET idx     == leaf_for_write_index(k, addr)
      pointer == st.pointers[map][idx]
  IN  IF NeedsAllocation(pointer)
        THEN LET st1 == Attach(st, map, idx, k)
             IN  constructAt(st1, st1.pointers[map][idx], k + 1)
        ELSE st

\* leaf_for_write of the level-k map at map: the heap afterwards and the
\* returned Leaf pointer.
RECURSIVE leaf_for_write(_, _, _, _)
leaf_for_write(st, map, k, addr) ==
  IF IsLeafLevel(k) THEN [st |-> st, ret |-> map]
  ELSE LET st2 == leaf_for_write_slot(st, map, k, addr)
       IN  leaf_for_write(st2, st2.pointers[map][leaf_for_write_index(k, addr)],
                          k + 1, addr)

\* Faulty variant: the child's storage is not handed back to the allocator.
destructAt_release_none(st, pointer) == st

\* Faulty variant: the child's storage is handed back twice.
destructAt_release_twice(st, pointer) ==
  [st EXCEPT !.calls = @ \o << Call("shadow_free", pointer),
                               Call("shadow_free", pointer) >>]

\* Faulty variant: the slot that held the child is set to nullptr as well.
destructAt_release_clear(st, pointer) ==
  [st EXCEPT !.calls = Append(@, Call("shadow_free", pointer)),
             !.pointers = [n \in DOMAIN @ |->
                             [i \in DOMAIN @[n] |->
                                IF @[n][i] = pointer THEN NULL ELSE @[n][i]]]]

\* What destructAt does for one present slot after the recursive call.
destructAt_release(st, pointer) ==
  [st EXCEPT !.calls = Append(@, Call("shadow_free", pointer))]

RECURSIVE destructAt(_, _, _)

\* Faulty variant: the child's storage is released before it is destructed.
destructAt_child_early(st, pointer, k) ==
  destructAt(destructAt_release(st, pointer), pointer, k + 1)

\* The body of the destructAt loop for a present slot: Lower::destructAt on
\* the child, then shadow_free on it.
destructAt_child(st, pointer, k) ==
  destructAt_release(destructAt(st, pointer, k + 1), pointer)

\* destructAt of the level-k map at map: slots i, i+1, ... of the loop.
RECURSIVE destructAt_loop(_, _, _, _)
destructAt_loop(st, map, k, i) ==
  IF ~(i < ShiftLeft1(dimension0(k))) THEN st
  ELSE LET pointer == st.pointers[map][i]
       IN  IF pointer # NULL
             THEN destructAt_loop(destructAt_child(st, pointer, k), map, k, i + 1)
             ELSE destructAt_loop(st, map, k, i + 1)

destructAt(st, map, k) ==
  IF IsLeafLevel(k)
    THEN [st EXCEPT !.leaf[map] = "destructed",
                    !.calls = @ \o << Call("destruct", map), Call("destructAt", map) >>]
    ELSE [destructAt_loop(st, map, k, 0)
            EXCEPT !.calls = Append(@, Call("destructAt", map))]

(***************************************************************************)
(* The state machine                                                       *)
(***************************************************************************)

Heap == [pointers |-> _pointers, leaf |-> _leaf, calls |-> calls]

EmptyHeap == [pointers |-> <<>>, leaf |-> <<>>, calls |-> <<>>]

\* Faulty variant: the constructor also allocates the path of address 0.
Constructor_eager ==
  leaf_for_write(constructAt(EmptyHeap, Root, 1), Root, 1, 0).st

\* The user's constructor ShadowMap(): constructAt(this).
Constructor == constructAt(EmptyHeap, Root, 1)

Init ==
  /\ dims \in Configs
  /\ _pointers = Constructor.pointers
  /\ _leaf = Constructor.leaf
  /\ calls = Constructor.calls
  /\ live = TRUE
  /\ op = "ShadowMap"
  /\ arg = 0
  /\ ret = NULL
  /\ held = NoHeld
  /\ written = FALSE
  /\ threads = [t \in Threads |-> Idle]
  /\ started = 0
  /\ raced = FALSE

\* Faulty variant: leaf is answered by leaf_for_write.
CallLeaf_allocating(addr) ==
  /\ live
  /\ LET r == leaf_for_write(Heap, Root, 1, addr)
     IN  /\ _pointers' = r.st.pointers
         /\ _leaf' = r.st.leaf
         /\ calls' = r.st.calls
         /\ ret' = r.ret
  /\ op' = "leaf"
  /\ arg' = addr
  /\ UNCHANGED <<dims, live, held, written, threads, started, raced>>

\* map.leaf(addr)
CallLeaf(addr) ==
  /\ live
  /\ op' = "leaf"
  /\ arg' = addr
  /\ ret' = leaf(_pointers, Root, 1, addr)
  /\ UNCHANGED <<dims, _pointers, _leaf, calls, live, held, written, threads, started, raced>>

\* map.leaf_for_write(addr); the caller may keep the result.
CallLeafForWrite(addr) ==
  /\ live
  /\ LET r == leaf_for_write(Heap, Root, 1, addr)
     IN  /\ _pointers' = r.st.pointers
         /\ _leaf' = r.st.leaf
         /\ calls' = r.st.calls
         /\ ret' = r.ret
         /\ held' \in { held, [addr |-> addr, rec |-> r.ret] }
  /\ op' = "leaf_for_write"
  /\ arg' = addr
  /\ written' = TRUE
  /\ UNCHANGED <<dims, live, threads, started, raced>>

\* ShadowMap::index(addr)
CallIndex(addr) ==
  /\ op' = "index"
  /\ arg' = addr
  /\ ret' = index(1, addr)
  /\ UNCHANGED <<dims, _pointers, _leaf, calls, live, held, written, threads, started, raced>>

\* ShadowMap::contiguousElements(addr)
CallContiguousElements(addr) ==
  /\ op' = "contiguousElements"
  /\ arg' = addr
  /\ ret' = contiguousElements(1, addr)
  /\ UNCHANGED <<dims, _pointers, _leaf, calls, live, held, written, threads, started, raced>>

\* The user's destructor ~ShadowMap(): destructAt(this).
Destructor ==
  /\ live
  /\ LET st == destructAt(Heap, Root, 1)
     IN  /\ _pointers' = st.pointers
         /\ _leaf' = st.leaf
         /\ calls' = st.calls
  /\ live' = FALSE
  /\ op' = "~ShadowMap"
  /\ arg' = 0
  /\ ret' = NULL
  /\ UNCHANGED <<dims, held, written, threads, started, raced>>

\* The life of one map: lookups, then the destructor.
Next ==
  \/ \E addr \in Addresses : CallLeaf(addr)
  \/ \E addr \in Addresses : CallLeafForWrite(addr)
  \/ Destructor

Spec == Init /\ [][Next]_vars

\* The static members, which touch no map.
NextStatic ==
  \/ \E addr \in Addresses : CallIndex(addr)
  \/ \E addr \in Addresses : CallContiguousElements(addr)

SpecStatic == Init /\ [][NextStatic]_vars

(***************************************************************************)
(* The calls statement by statement.  A thread executes leaf or            *)
(* leaf_for_write one memory access at a time; threads[t] holds the        *)
(* function it is in (op, addr), the node and level it has reached (map,   *)
(* k), the index it computed (idx) and the pointer it stored (own).        *)
(* Nothing synchronizes the threads.  Where the source reads the slot it   *)
(* has just written, a build may use the written value or read the slot    *)
(* again; both are allowed.  A thread that reads storage nothing has       *)
(* written, or follows a pointer that is not a node, has undefined         *)
(* behaviour and stops in "ub".                                            *)
(***************************************************************************)

StepAddresses == 0 .. MaxStepAddr

\* Is thread u inside a call?
Active(u) == threads[u].pc \in {"read", "store", "construct", "descend"}

\* Has constructAt finished on node p?
Constructed(p) == \E i \in DOMAIN calls : calls[i] = <<"constructAt", p>>

\* The thread when its call has returned r, or has ended in undefined
\* behaviour: its locals are gone.
Return(th, r) ==
  [Idle EXCEPT !.pc = "done", !.op = th.op, !.addr = th.addr, !.ret = r,
               !.overlap = th.overlap, !.sawRaw = th.sawRaw]
Undefined(th) ==
  [Idle EXCEPT !.pc = "ub", !.op = th.op, !.addr = th.addr,
               !.overlap = th.overlap, !.sawRaw = th.sawRaw]

\* The thread on entering leaf / leaf_for_write of the level-k map at map:
\* the single-width specialization returns &_leaf at once.
Enter(th, map, k) ==
  IF IsLeafLevel(k)
    THEN Return(th, map)
    ELSE [th EXCEPT !.pc = "read", !.map = map, !.k = k, !.idx = 0, !.own = NULL]

\* A reader notes that the node it is about to use has not been constructed.
Noting(th, p) ==
  [th EXCEPT !.sawRaw = @ \/ (th.op = "leaf" /\ ~Constructed(p))]


\* Thread t calls map.leaf(a) or map.leaf_for_write(a).
Begin(t, o, a) ==
  /\ live
  /\ threads[t].pc \in {"idle", "done"}
  /\ started < MaxCalls
  /\ started' = started + 1
  /\ threads' =
       [u \in Threads |->
          IF u = t
            THEN Enter([Idle EXCEPT !.op = o, !.addr = a,
                                    !.overlap = (o = "leaf" /\
                                                 \E v \in Threads \ {t} :
                                                   Active(v) /\ threads[v].op = "leaf_for_write")],
                       Root, 1)
            ELSE IF o = "leaf_for_write" /\ Active(u) /\ threads[u].op = "leaf"
                   THEN [threads[u] EXCEPT !.overlap = TRUE]
                   ELSE threads[u]]
  /\ raced' = (raced \/ (o = "leaf_for_write" /\
                          \E v \in Threads \ {t} :
                            Active(v) /\ threads[v].op = "leaf_for_write"))
  /\ UNCHANGED <<dims, _pointers, _leaf, calls, live, op, arg, ret, held, written>>

\* Thread t computes the index and reads the slot (lines 109-110, 124-125),
\* then takes the branch the pointer selects.
Read(t) ==
  /\ threads[t].pc = "read"
  /\ LET th      == threads[t]
         idx     == IF th.op = "leaf" THEN leaf_index(th.k, th.addr)
                    ELSE leaf_for_write_index(th.k, th.addr)
         pointer == _pointers[th.map][idx]
     IN  threads' = [threads EXCEPT ![t] =
           IF pointer = RAW
             THEN Undefined([th EXCEPT !.sawRaw = (th.op = "leaf")])
           ELSE IF th.op = "leaf_for_write" /\ NeedsAllocation(pointer)
             THEN [th EXCEPT !.pc = "store", !.idx = idx]
           ELSE IF pointer = NULL
             THEN Return(th, NULL)
           ELSE Enter(Noting(th, pointer), pointer, th.k + 1)]
  /\ UNCHANGED <<dims, _pointers, _leaf, calls, live, op, arg, ret, held, written,
                 started, raced>>

\* Thread t executes line 127: shadow_malloc and the store into the slot.
Store(t) ==
  /\ threads[t].pc = "store"
  /\ LET th  == threads[t]
         st1 == Attach(Heap, th.map, th.idx, th.k)
     IN  /\ _pointers' = st1.pointers
         /\ _leaf' = st1.leaf
         /\ calls' = st1.calls
         /\ threads' = [threads EXCEPT ![t] =
                          [th EXCEPT !.pc = "construct",
                                     !.own = st1.pointers[th.map][th.idx]]]
  /\ UNCHANGED <<dims, live, op, arg, ret, held, written, started, raced>>

\* The pointers line 128 or 129 may use for _pointers[index]: the one the
\* thread stored, or what the slot holds now.
SlotValues(th) == { th.own, _pointers[th.map][th.idx] }

\* Thread t executes line 128: Lower::constructAt(_pointers[index]).
Construct(t) ==
  /\ threads[t].pc = "construct"
  /\ \E p \in SlotValues(threads[t]) :
       LET th == threads[t]
       IN  IF p \in Acquired(calls)
             THEN LET st2 == constructAt(Heap, p, th.k + 1)
                  IN  /\ _pointers' = st2.pointers
                      /\ _leaf' = st2.leaf
                      /\ calls' = st2.calls
                      /\ threads' = [threads EXCEPT ![t] = [th EXCEPT !.pc = "descend"]]
             ELSE /\ threads' = [threads EXCEPT ![t] = Undefined(th)]
                  /\ UNCHANGED <<_pointers, _leaf, calls>>
  /\ UNCHANGED <<dims, live, op, arg, ret, held, written, started, raced>>

\* Thread t executes line 129: _pointers[index]->leaf_for_write(addr).
Descend(t) ==
  /\ threads[t].pc = "descend"
  /\ \E p \in SlotValues(threads[t]) :
       LET th == threads[t]
       IN  threads' = [threads EXCEPT ![t] =
             IF p \in Acquired(calls)
               THEN Enter(Noting(th, p), p, th.k + 1)
               ELSE Undefined(th)]
  /\ UNCHANGED <<dims, _pointers, _leaf, calls, live, op, arg, ret, held, written,
                 started, raced>>

\* A statement of thread t.
Step(t) ==
  \/ \E o \in {"leaf", "leaf_for_write"}, a \in StepAddresses : Begin(t, o, a)
  \/ Read(t)
  \/ Store(t)
  \/ Construct(t)
  \/ Descend(t)

\* Single-threaded use: one thread makes all calls.
NextSingle == Step(1)

SpecSingle == Init /\ [][NextSingle]_vars

\* Use without external locking: the statements of the threads interleave.
NextRace == \E t \in Threads : Step(t)

SpecRace == Init /\ [][NextRace]_vars

(***************************************************************************)
(* Type invariant                                                          *)
(***************************************************************************)

TypeOK ==
  /\ dims \in Configs
  /\ live \in BOOLEAN
  /\ arg \in Addresses
  /\ op \in {"ShadowMap", "leaf", "leaf_for_write", "index",
             "contiguousElements", "~ShadowMap"}

(***************************************************************************)
(* Notions used by the properties                                          *)
(***************************************************************************)

\* Number of levels, width of the last level, sum of all widths.
Levels == Len(dims)
Wn == dims[Len(dims)]
S == dimensions_sum(1)

\* Addresses inside the configured address-bit range.
InRange == { a \in Addresses : a < 2^S }

\* The bits of a above the last level's width.
LeafPrefix(a) == a \div (2^Wn)

\* Number of nodes shadow_malloc has handed out.
Nodes == Cardinality(Acquired(calls))

\* How often the call name(node) has been made.
CountCalls(name, node) ==
  Cardinality({ i \in DOMAIN calls : calls[i] = <<name, node>> })

\* How often name has been called in the call sequence cs, on any node.
CountName(cs, name) ==
  Cardinality({ i \in DOMAIN cs : cs[i][1] = name })

\* The bit slice of address a that belongs to level k, by arithmetic.
RECURSIVE WidthsBelow(_)
WidthsBelow(k) == IF k >= Len(dims) THEN 0 ELSE dims[k + 1] + WidthsBelow(k + 1)
SliceIndex(k, a) == (a \div (2^WidthsBelow(k))) % (2^dims[k])

\* The configured bits of a above the last level's width: they select the leaf.
SamePath(a, b) == \A k \in 1 .. (Levels - 1) : SliceIndex(k, a) = SliceIndex(k, b)

\* The slots <<node, slot>> on the path of address a in the pointer table P,
\* from the level-k node map down to the first absent slot.
RECURSIVE PathSlots(_, _, _, _)
PathSlots(P, map, k, a) ==
  IF k >= Levels THEN {}
  ELSE LET i == SliceIndex(k, a)
       IN  {<<map, i>>} \cup
           (IF P[map][i] = NULL THEN {} ELSE PathSlots(P, P[map][i], k + 1, a))

\* The nodes below the root on the path of a that exist in P.
PathNodes(P, a) ==
  { P[sl[1]][sl[2]] : sl \in PathSlots(P, Root, 1, a) } \ {NULL}

\* The record the path of address a ends at in P, or NULL, by arithmetic.
RECURSIVE LookupFrom(_, _, _, _)
LookupFrom(P, map, k, a) ==
  IF k >= Levels THEN map
  ELSE LET p == P[map][SliceIndex(k, a)]
       IN  IF p = NULL THEN NULL ELSE LookupFrom(P, p, k + 1, a)
Lookup(P, a) == LookupFrom(P, Root, 1, a)

\* The call e1 was made before the call e2.
Before(e1, e2) ==
  \E i, j \in DOMAIN calls : i < j /\ calls[i] = e1 /\ calls[j] = e2

\* How often the call e occurs in the call sequence cs.
CountIn(cs, e) == Cardinality({ i \in DOMAIN cs : cs[i] = e })

\* The nodes the slots of node n refer to, and all nodes below n.
Children(P, n) ==
  IF n \in DOMAIN P THEN { P[n][i] : i \in DOMAIN P[n] } \ {NULL} ELSE {}
RECURSIVE Below(_, _)
Below(P, n) == Children(P, n) \cup UNION { Below(P, c) : c \in Children(P, n) }

\* All slots of the table P.
AllSlots(P) == UNION { { <<n, i>> : i \in DOMAIN P[n] } : n \in DOMAIN P }

(***************************************************************************)
(* C1  Write-then-read consistency: while the map is live, leaf(A) returns  *)
(* the record address an earlier leaf_for_write(A) returned, never NULL,   *)
(* whatever calls were made in between.                                    *)
(***************************************************************************)
C1_WriteThenRead ==
  (live /\ op = "leaf" /\ held.addr = arg) => (ret = held.rec /\ ret # NULL)

\* leaf(A) has answered after leaf_for_write(A) and further allocations.
C1_Witness ==
  /\ live /\ op = "leaf" /\ held.addr = arg /\ ret = held.rec
  /\ Levels = 3 /\ Nodes > 2

(***************************************************************************)
(* C2  Unmapped by default, as stated: on a map on which leaf_for_write    *)
(* has not been called, leaf returns NULL for every address, for every     *)
(* width sequence.                                                         *)
(***************************************************************************)
C2_Original ==
  (live /\ op = "leaf" /\ ~written) => ret = NULL

\* C2 as amended: the same for every width sequence of at least two widths.
C2_UnmappedByDefault ==
  (live /\ op = "leaf" /\ ~written /\ Levels >= 2) => ret = NULL

\* leaf has answered NULL on a fresh multi-level map.
C2_Witness ==
  live /\ op = "leaf" /\ ~written /\ Levels >= 2 /\ ret = NULL /\ arg = 2^S - 1

(***************************************************************************)
(* C3  Locality: for in-range A and B, leaf(B) after leaf_for_write(A)     *)
(* returns A's record address exactly when A and B agree on every bit      *)
(* above the last level's width; otherwise NULL or another record.         *)
(***************************************************************************)
C3_Locality ==
  (live /\ op = "leaf" /\ held.addr \in InRange /\ arg \in InRange)
    => ((ret = held.rec) <=> (LeafPrefix(arg) = LeafPrefix(held.addr)))

\* leaf(B) has returned A's record for B # A in A's leaf, on a map where
\* another leaf exists as well.
C3_Witness ==
  /\ live /\ op = "leaf" /\ held.addr \in InRange /\ arg \in InRange
  /\ arg # held.addr /\ ret = held.rec /\ Levels >= 2 /\ Nodes > Levels - 1

(***************************************************************************)
(* C4  No double initialization: whatever leaf and leaf_for_write calls    *)
(* are made, constructAt runs at most once on every node, so every Leaf    *)
(* record is constructed at most once and every _pointers array is reset   *)
(* at most once.                                                           *)
(***************************************************************************)
C4_NoDoubleInit ==
  \A n \in Acquired(calls) \cup {Root} :
    /\ CountCalls("constructAt", n) <= 1
    /\ CountCalls("construct", n) <= 1

\* leaf_for_write has been answered from a leaf an earlier call on another
\* address created, and that leaf's record was constructed once.
C4_Witness ==
  /\ live /\ op = "leaf_for_write" /\ Levels >= 2
  /\ held.addr # arg /\ held.addr >= 0 /\ held.rec = ret
  /\ CountCalls("construct", ret) = 1

(***************************************************************************)
(* C5  Teardown completeness: once the destructor has run, destructAt and  *)
(* shadow_free have each been called exactly once on every node that       *)
(* leaf_for_write created, K pairs for K nodes, and on nothing else below  *)
(* the root.                                                               *)
(***************************************************************************)
C5_TeardownComplete ==
  ~live =>
    /\ \A n \in Acquired(calls) :
         /\ CountCalls("destructAt", n) = 1
         /\ CountCalls("shadow_free", n) = 1
    /\ CountName(calls, "shadow_free") = Nodes
    /\ CountName(calls, "destructAt") = Nodes + 1
    /\ CountCalls("destructAt", Root) = 1
    /\ CountName(calls, "destruct") = Cardinality(DOMAIN _leaf)
    /\ \A n \in DOMAIN _leaf : CountCalls("destruct", n) = 1

\* A three-level map with interior nodes and leaves has been destroyed.
C5_Witness ==
  ~live /\ Levels = 3 /\ Nodes >= 4 /\ CountName(calls, "shadow_free") = Nodes

C7_ReadOnly ==
  [][op' = "leaf" =>
       /\ _pointers' = _pointers
       /\ _leaf' = _leaf
       /\ calls' = calls
       /\ live' = live]_vars

\* leaf has answered NULL on a map that holds nodes.
C7_Witness ==
  live /\ op = "leaf" /\ ret = NULL /\ Nodes >= 2

(***************************************************************************)
(* C8  leaf_for_write(A) returns a record address, acquires one node for   *)
(* each node of A's path that was absent and none else, changes no slot    *)
(* but the absent ones on A's path, and changes leaf(B) for no B whose     *)
(* configured bits above Wn differ from A's.                               *)
(***************************************************************************)
C8_MinimalCreation ==
  [][op' = "leaf_for_write" =>
       LET A       == arg'
           path    == PathSlots(_pointers', Root, 1, A)
           before  == PathNodes(_pointers, A)
           after   == { _pointers'[sl[1]][sl[2]] : sl \in path } \ {NULL}
           created == Acquired(calls') \ Acquired(calls)
       IN  /\ ret' # NULL
           /\ Cardinality(after) = Levels - 1
           /\ created = after \ before
           /\ CountName(calls', "shadow_malloc") - CountName(calls, "shadow_malloc")
                = (Levels - 1) - Cardinality(before)
           /\ \A sl \in AllSlots(_pointers) :
                (sl \notin path \/ _pointers[sl[1]][sl[2]] # NULL)
                  => _pointers'[sl[1]][sl[2]] = _pointers[sl[1]][sl[2]]
           /\ \A sl \in AllSlots(_pointers') \ AllSlots(_pointers) :
                sl \notin path => _pointers'[sl[1]][sl[2]] = NULL
           /\ (DOMAIN _pointers' \cup DOMAIN _leaf')
                = (DOMAIN _pointers \cup DOMAIN _leaf) \cup created
           /\ \A B \in Addresses :
                \/ leaf(_pointers', Root, 1, B) = leaf(_pointers, Root, 1, B)
                \/ SamePath(A, B)
  ]_vars

\* leaf_for_write has created only the leaf: its interior node was there.
C8_Witness ==
  /\ live /\ op = "leaf_for_write" /\ Levels = 3 /\ Nodes = 3
  /\ CountCalls("shadow_malloc", ret) = 1
  /\ calls[Len(calls)] = <<"constructAt", ret>>

(***************************************************************************)
(* C9  Idempotence: when every node of A's path exists, leaf_for_write(A)  *)
(* makes no call, changes nothing and returns what leaf(A) returns; so a   *)
(* leaf_for_write(A) right after a leaf_for_write(A) returns the same      *)
(* address and changes nothing.                                            *)
(***************************************************************************)
C9_Idempotent ==
  [][op' = "leaf_for_write" =>
       /\ Cardinality(PathNodes(_pointers, arg')) = Levels - 1 =>
            /\ calls' = calls
            /\ _pointers' = _pointers
            /\ _leaf' = _leaf
            /\ ret' = leaf(_pointers, Root, 1, arg')
       /\ (op = "leaf_for_write" /\ arg' = arg) =>
            /\ ret' = ret
            /\ calls' = calls
            /\ _pointers' = _pointers
            /\ _leaf' = _leaf]_vars

\* leaf_for_write has been answered on a path that existed: its record was
\* kept from an earlier call on another address and no node is younger.
C9_Witness ==
  /\ live /\ op = "leaf_for_write" /\ Levels = 3
  /\ held.addr # arg /\ held.addr >= 0 /\ held.rec = ret
  /\ Nodes = 2

(***************************************************************************)
(* C10  Allocator contract: shadow_free is only called on storage that     *)
(* shadow_malloc returned earlier, at most once on each, never on the      *)
(* user's map object, and once the destructor has run exactly once on      *)
(* everything shadow_malloc returned.                                      *)
(***************************************************************************)
C10_AllocatorContract ==
  /\ \A i \in DOMAIN calls :
       calls[i][1] = "shadow_free" =>
         /\ calls[i][2] # Root
         /\ \E j \in 1 .. (i - 1) : calls[j] = <<"shadow_malloc", calls[i][2]>>
         /\ \A j \in DOMAIN calls : calls[j] = calls[i] => j = i
  /\ \A i, j \in DOMAIN calls :
       (calls[i][1] = "shadow_malloc" /\ calls[j] = calls[i]) => j = i
  /\ live => CountName(calls, "shadow_free") = 0
  /\ ~live => \A n \in Acquired(calls) : CountCalls("shadow_free", n) = 1

\* A map with several nodes has been destroyed and every node released.
C10_Witness ==
  /\ ~live /\ Nodes >= 3
  /\ \A n \in Acquired(calls) : CountCalls("shadow_free", n) = 1

\* The present slots of P and the nodes they refer to.
PresentSlots(P) == { sl \in AllSlots(P) : P[sl[1]][sl[2]] # NULL }
Referenced(P) == { P[sl[1]][sl[2]] : sl \in PresentSlots(P) }

(***************************************************************************)
(* C11  Node lifecycle: a slot goes from absent to present only in         *)
(* leaf_for_write, finalize and release happen only in the destructor, no  *)
(* call makes a present slot absent or makes it refer to another node, so  *)
(* while the map is live a mapped address stays mapped to the same record. *)
(***************************************************************************)
C11_Lifecycle ==
  [][/\ \A sl \in PresentSlots(_pointers) :
          _pointers'[sl[1]][sl[2]] = _pointers[sl[1]][sl[2]]
     /\ (PresentSlots(_pointers') # PresentSlots(_pointers)
           \/ Acquired(calls') # Acquired(calls)) => op' = "leaf_for_write"
     /\ (CountName(calls', "destructAt") # CountName(calls, "destructAt")
           \/ CountName(calls', "destruct") # CountName(calls, "destruct")
           \/ CountName(calls', "shadow_free") # CountName(calls, "shadow_free"))
          => op' = "~ShadowMap"
     /\ live' => \A a \in Addresses :
                    leaf(_pointers, Root, 1, a) # NULL
                      => leaf(_pointers', Root, 1, a) = leaf(_pointers, Root, 1, a)
    ]_vars

\* A record kept from an early leaf_for_write is still what its address maps
\* to after later calls have created other nodes.
C11_Witness ==
  /\ live /\ op = "leaf_for_write" /\ Levels = 3 /\ Nodes >= 4
  /\ held.rec # NULL /\ held.rec # ret
  /\ leaf(_pointers, Root, 1, held.addr) = held.rec

(***************************************************************************)
(* C12  Post-order teardown: for every node, destructAt on it is finished  *)
(* before it is released, and everything below it is finalized and        *)
(* released before its own destructAt finishes, hence before its release.  *)
(***************************************************************************)
C12_PostOrder ==
  /\ live => CountName(calls, "destructAt") + CountName(calls, "shadow_free") = 0
  /\ ~live =>
       \A n \in Acquired(calls) :
         /\ Before(<<"destructAt", n>>, <<"shadow_free", n>>)
         /\ Before(<<"shadow_free", n>>, <<"destructAt", Root>>)
         /\ \A d \in Below(_pointers, n) :
              /\ Before(<<"destructAt", d>>, <<"shadow_free", d>>)
              /\ Before(<<"shadow_free", d>>, <<"destructAt", n>>)
              /\ Before(<<"shadow_free", d>>, <<"shadow_free", n>>)

\* A three-level map whose interior node has two leaves has been destroyed.
C12_Witness ==
  /\ ~live /\ Levels = 3
  /\ \E n \in Acquired(calls) : Cardinality(Below(_pointers, n)) = 2

(***************************************************************************)
(* C14  Strict tree: while the map is live every node shadow_malloc        *)
(* returned is referred to by exactly one slot and is reachable from the   *)
(* root, and every present slot refers to such a node; so shadow_malloc    *)
(* was called as often as there are present slots.                         *)
(***************************************************************************)
C14_StrictTree ==
  live =>
    /\ \A n \in Acquired(calls) :
         Cardinality({ sl \in PresentSlots(_pointers) :
                         _pointers[sl[1]][sl[2]] = n }) = 1
    /\ Acquired(calls) = Below(_pointers, Root)
    /\ Referenced(_pointers) = Acquired(calls)
    /\ CountName(calls, "shadow_malloc") = Cardinality(PresentSlots(_pointers))

\* A three-level map with two interior nodes and three leaves.
C14_Witness ==
  live /\ Levels = 3 /\ Nodes = 5 /\ Cardinality(PresentSlots(_pointers)) = 5

(***************************************************************************)
(* C17  Destroy clears the slot, as stated: after teardown every slot is   *)
(* absent, so destructAt on the map once more makes no finalize or release *)
(* call.                                                                   *)
(***************************************************************************)
C17_Original ==
  ~live =>
    /\ PresentSlots(_pointers) = {}
    /\ destructAt(Heap, Root, 1).calls = Append(calls, <<"destructAt", Root>>)

\* C17 as amended: teardown leaves every slot as it was; the released nodes
\* are still referred to, and the root's slots would hand each child to
\* shadow_free again if destructAt ran once more.
C17_SlotsKept ==
  ~live =>
    /\ Referenced(_pointers) = Acquired(calls)
    /\ \A c \in Children(_pointers, Root) :
         /\ CountCalls("shadow_free", c) = 1
         /\ CountIn(destructAt(Heap, Root, 1).calls, <<"shadow_free", c>>) = 2

\* A map with nodes has been destroyed and its root still refers to them.
C17_Witness ==
  ~live /\ Levels >= 2 /\ Cardinality(Children(_pointers, Root)) = 2

(***************************************************************************)
(* C18  Silent masking: two addresses that agree on their low S bits get   *)
(* the same answer from leaf, the same answer and effect from              *)
(* leaf_for_write and the same index, and the answer to an address with    *)
(* bits above bit S-1 is a record or NULL like any other.                  *)
(***************************************************************************)
C18_Masking ==
  live =>
    /\ \A a, b \in Addresses :
         (a < b /\ a % (2^S) = b % (2^S)) =>
           /\ leaf(_pointers, Root, 1, a) = leaf(_pointers, Root, 1, b)
           /\ leaf_for_write(Heap, Root, 1, a) = leaf_for_write(Heap, Root, 1, b)
           /\ index(1, a) = index(1, b)
    /\ op = "leaf" => ret \in {NULL, Root} \cup Acquired(calls)
    /\ op = "leaf_for_write" => ret \in {Root} \cup Acquired(calls)

\* leaf_for_write on an address above the configured range has returned the
\* record kept from the call on the address with the same low S bits.
C18_Witness ==
  /\ live /\ op = "leaf_for_write" /\ Levels >= 2 /\ arg >= 2^S
  /\ held.addr = arg - 2^S /\ held.rec = ret

(***************************************************************************)
(* C19  Index extraction: at level i leaf and leaf_for_write select slot   *)
(* (addr >> sum of the widths below i) mod 2^Wi, a number in 0..2^Wi-1,    *)
(* so the answer is what the successive bit slices of addr lead to.        *)
(***************************************************************************)
C19_IndexExtraction ==
  (live /\ op \in {"leaf", "leaf_for_write"}) =>
    /\ \A k \in 1 .. (Levels - 1) :
         /\ leaf_index(k, arg) = SliceIndex(k, arg)
         /\ leaf_for_write_index(k, arg) = SliceIndex(k, arg)
         /\ leaf_index(k, arg) \in 0 .. (2^dims[k] - 1)
    /\ ret = Lookup(_pointers, arg)

\* leaf has answered address 5 = 101b on a three-level map of widths 1, 1, 1:
\* top-level slot 1, then slot 0.
C19_Witness ==
  /\ live /\ op = "leaf" /\ dims = <<1, 1, 1>> /\ arg = 5 /\ ret # NULL
  /\ _pointers[Root][1] # NULL /\ _pointers[_pointers[Root][1]][0] = ret

(***************************************************************************)
(* C20  Single-width map: it is the leaf itself.  Its record is            *)
(* constructed once by the constructor and destructed once by the          *)
(* destructor, shadow_malloc and shadow_free are never called, and leaf    *)
(* and leaf_for_write return the address of that record for every address. *)
(***************************************************************************)
C20_SingleWidth ==
  Levels = 1 =>
    /\ CountCalls("construct", Root) = 1
    /\ CountName(calls, "construct") = 1
    /\ CountName(calls, "destruct") = (IF live THEN 0 ELSE 1)
    /\ CountCalls("destruct", Root) = (IF live THEN 0 ELSE 1)
    /\ CountName(calls, "shadow_malloc") = 0
    /\ CountName(calls, "shadow_free") = 0
    /\ (live /\ op \in {"leaf", "leaf_for_write"}) => ret = Root
    /\ \A a \in Addresses :
         /\ leaf(_pointers, Root, 1, a) = Root
         /\ leaf_for_write(Heap, Root, 1, a) = [st |-> Heap, ret |-> Root]

\* A single-width map has been looked up for writing and then destroyed.
C20_Witness ==
  Levels = 1 /\ ~live /\ written /\ CountCalls("destruct", Root) = 1

(***************************************************************************)
(* C13  Initialization invariant: before teardown, also between the        *)
(* statements of a leaf_for_write in progress, every node a slot refers to *)
(* has been through constructAt.                                           *)
(***************************************************************************)
C13_Initialized ==
  live => \A n \in Acquired(calls) \cap Referenced(_pointers) : Constructed(n)

\* The nodes shadow_malloc returned that cannot be reached from the root.
Leaked == Acquired(calls) \ Below(_pointers, Root)

\* Two finished leaf_for_write calls on one leaf's addresses returned
\* different records.
Divergent ==
  \E t, u \in Threads :
    /\ threads[t].pc = "done" /\ threads[t].op = "leaf_for_write"
    /\ threads[u].pc = "done" /\ threads[u].op = "leaf_for_write"
    /\ SamePath(threads[t].addr, threads[u].addr)
    /\ threads[t].ret # threads[u].ret

(***************************************************************************)
(* C15  Writer/writer race: without locking, two leaf_for_write calls that *)
(* need the same absent slot can both acquire a node for it, leaving one   *)
(* node that no slot refers to and the callers with different records;     *)
(* and a node is lost, records differ or a node is constructed twice only  *)
(* when two leaf_for_write calls have been in progress together.           *)
(***************************************************************************)
C15_WriterRace ==
  (\/ Leaked # {}
   \/ Divergent
   \/ \E n \in Acquired(calls) : CountCalls("constructAt", n) > 1) => raced

\* Both writers have returned, with different records for the same leaf, and
\* one acquired node is referred to by no slot.
C15_Witness ==
  /\ \A t \in Threads : threads[t].pc = "done" /\ threads[t].op = "leaf_for_write"
  /\ Divergent
  /\ Leaked # {}
  /\ Cardinality(Acquired(calls)) = Cardinality(PresentSlots(_pointers)) + 1

\* The step is one of thread t's own statements.
OwnStep(t) ==
  [threads'[t] EXCEPT !.overlap = FALSE] # [threads[t] EXCEPT !.overlap = FALSE]

(***************************************************************************)
(* C16  Reader/writer race: a leaf call that runs while a leaf_for_write   *)
(* is creating a node on its path can find the slot present and use the    *)
(* node before constructAt has run on it.  A leaf call during which no     *)
(* leaf_for_write is in progress never does, changes nothing and returns   *)
(* what the slots on its address's path lead to, however it interleaves    *)
(* with other leaf calls.                                                  *)
(***************************************************************************)
C16_ReaderRace ==
  [][\A t \in Threads :
       /\ (OwnStep(t) /\ threads'[t].op = "leaf") =>
            /\ _pointers' = _pointers
            /\ _leaf' = _leaf
            /\ calls' = calls
            /\ (threads'[t].pc = "done" /\ ~threads'[t].overlap) =>
                 threads'[t].ret = Lookup(_pointers', threads'[t].addr)
       /\ (threads'[t].op = "leaf"
             /\ (threads'[t].sawRaw \/ threads'[t].pc = "ub")) => threads'[t].overlap
    ]_vars

\* A reader has returned the record of a leaf whose construct has not run.
C16_Witness ==
  \E t \in Threads :
    /\ threads[t].pc = "done" /\ threads[t].op = "leaf" /\ threads[t].sawRaw
    /\ threads[t].ret \in DOMAIN _leaf /\ _leaf[threads[t].ret] = "raw"

=============================================================================
